---- MODULE Spec2Model ----
(***************************************************************************)
(* Model of the Spicetify History extension: the IndexedDB object store    *)
(* "history" (db.ts), the song-change recorder (extensions/extension.tsx)  *)
(* and the parts of the history page (app.tsx) that drive the store.       *)
(*                                                                         *)
(* IndexedDB transactions on the single object store are modelled as a     *)
(* queue in creation order: a readwrite transaction runs alone, readonly   *)
(* transactions may run together.  A transaction works on a private copy   *)
(* of the store that becomes the store when the transaction completes and  *)
(* is dropped when it aborts.                                              *)
(***************************************************************************)
EXTENDS Integers, Sequences, FiniteSets, TLC

\* ------------------------------------------------------------------ bounds
MaxUid == 2
MaxUri == 2
MaxTime == 2
MaxTxns == 2
MaxDoc == 2
MaxRows == 3
MaxList == 3
\* The calls of fetchHistory that may wait for openDB at one time.
MaxFetch == 2

\* ------------------------------------------------------------- JS values
\* A string is a sequence of character codes; a number is an integer.
Str(s) == [t |-> "string", v |-> s]
Num(n) == [t |-> "number", v |-> n]
Arr(s) == [t |-> "array", v |-> s]
Undefined == [t |-> "undefined"]
\* A property that JSON.stringify dropped: reading it yields undefined.
Absent == [t |-> "absent"]
Null == [t |-> "null"]
MetaObj == [t |-> "object"]

\* typeof x; Array.isArray(x) is x.t = "array".
TypeOf(x) ==
  CASE x.t = "absent" -> "undefined"
    [] x.t = "null" -> "object"
    [] x.t = "array" -> "object"
    [] OTHER -> x.t

Uids == {Str(<<i>>) : i \in 1..MaxUid}
Uris == {Str(<<i>>) : i \in 1..MaxUri}
\* The ids of the larger stores the transfer operations are run on.
RowIds == {Str(<<i>>) : i \in 1..MaxRows}
Times == 1..MaxTime

TitleA == Str(<<1, 2>>)
TitleB == Str(<<2, 1>>)
AlbumX == [name |-> Str(<<3>>), uri |-> Str(<<4>>)]
ArtistQ == [name |-> Str(<<5>>), uri |-> Str(<<6>>)]
ImageI == [label |-> Str(<<7>>), url |-> Str(<<8>>)]
DurationA == [milliseconds |-> Num(3)]
DurationB == [milliseconds |-> Num(1)]

\* ---------------------------------------------------------- player items
\* Spicetify.Player.data?.item: a track (with or without album data), an
\* item of another type, or no item at all.
\* A track with album data for every uid and uri, and one track without.
TrackOf(u, c) ==
  [type |-> "track", uid |-> u, uri |-> c, name |-> TitleA,
   duration |-> DurationA, album |-> AlbumX,
   artists |-> <<ArtistQ>>, images |-> <<ImageI>>, metadata |-> MetaObj]

BareTrack ==
  [type |-> "track", uid |-> Str(<<1>>), uri |-> Str(<<1>>), name |-> TitleB,
   duration |-> DurationB, album |-> Undefined,
   artists |-> <<>>, images |-> <<>>, metadata |-> MetaObj]

Tracks == {TrackOf(u, c) : u \in Uids, c \in Uris} \cup {BareTrack}

Episode ==
  [type |-> "episode", uid |-> Str(<<1>>), uri |-> Str(<<1>>), name |-> TitleA,
   duration |-> DurationA, album |-> Undefined,
   artists |-> <<>>, images |-> <<>>, metadata |-> MetaObj]

NoItem == [type |-> "none"]

PlayerItems == Tracks \cup {Episode, NoItem}

\* currentSong as the songchange listener builds it.
MkSong(item, now) ==
  [uid |-> item.uid, uri |-> item.uri, name |-> item.name,
   duration |-> item.duration,
   album |-> IF item.album = Undefined
               THEN [uri |-> Undefined, name |-> Undefined]
               ELSE [uri |-> item.album.uri, name |-> item.album.name],
   artists |-> Arr(item.artists), metadata |-> item.metadata,
   images |-> Arr(item.images), listenDate |-> Num(now)]

\* ------------------------------------------------- the "history" store
\* The object store is a set of records.  keyPath "uid" makes uid the
\* primary key; the index "uri" is created with unique: true.
RECURSIVE SeqLess(_, _)
SeqLess(a, b) ==
  IF b = <<>> THEN FALSE
  ELSE IF a = <<>> THEN TRUE
  ELSE IF Head(a) # Head(b) THEN Head(a) < Head(b)
  ELSE SeqLess(Tail(a), Tail(b))

KeyExists(s, uid) == \E r \in s : r.uid = uid

\* An index "uri" that is not unique rejects nothing.
UriIndexNotUnique(s, rec) == FALSE

\* The unique index "uri" rejects a record whose uri another key holds.
UriIndexConflict(s, rec) == \E r \in s : r.uri = rec.uri /\ r.uid # rec.uid

\* index.get(uri): the record the index holds for uri, or undefined.
IndexGet(s, uri) ==
  IF \E r \in s : r.uri = uri THEN CHOOSE r \in s : r.uri = uri ELSE Undefined

\* add with the listenDate of the stored record lost.
StoreAddStale(s, rec) ==
  IF KeyExists(s, rec.uid) \/ UriIndexConflict(s, rec)
    THEN [ok |-> FALSE, store |-> s]
    ELSE [ok |-> TRUE, store |-> s \cup {[rec EXCEPT !.listenDate = Num(0)]}]

\* add behaving as put: the record stored under the key is replaced.
StoreAddAsPut(s, rec) ==
  IF UriIndexConflict(s, rec)
    THEN [ok |-> FALSE, store |-> s]
    ELSE [ok |-> TRUE, store |-> {r \in s : r.uid # rec.uid} \cup {rec}]

\* objectStore.add(rec): ConstraintError when the key or the uri exists.
StoreAdd(s, rec) ==
  IF KeyExists(s, rec.uid) \/ UriIndexConflict(s, rec)
    THEN [ok |-> FALSE, store |-> s]
    ELSE [ok |-> TRUE, store |-> s \cup {rec}]

\* objectStore.put(rec): replaces the record stored under rec.uid.
StorePut(s, rec) ==
  IF UriIndexConflict(s, rec)
    THEN [ok |-> FALSE, store |-> s]
    ELSE [ok |-> TRUE, store |-> {r \in s : r.uid # rec.uid} \cup {rec}]

\* A delete of a key that is not stored empties the store.
StoreDeleteOrClear(s, uid) ==
  IF KeyExists(s, uid) THEN {r \in s : r.uid # uid} ELSE {}

\* A delete that also takes the records whose uri is the given key.
StoreDeleteByUri(s, uid) == {r \in s : r.uid # uid /\ r.uri # uid}

\* objectStore.delete(uid): succeeds whether or not the key is stored.
StoreDelete(s, uid) == {r \in s : r.uid # uid}

\* A clear that removes nothing.
StoreClearNothing(s) == s

\* A clear that removes the record with the smallest key only.
StoreClearPartial(s) ==
  {r \in s : \E q \in s : SeqLess(q.uid.v, r.uid.v)}

\* objectStore.clear()
StoreClear(s) == {}

\* objectStore.getAll(): every record, in primary-key order.
RECURSIVE StoreGetAll(_)
StoreGetAll(s) ==
  IF s = {} THEN <<>>
  ELSE LET m == CHOOSE r \in s : \A q \in s : q = r \/ ~SeqLess(q.uid.v, r.uid.v)
       IN <<m>> \o StoreGetAll(s \ {m})

\* ------------------------------------------------------------- sorting
Sign(a, b) == IF SeqLess(a, b) THEN -1 ELSE IF SeqLess(b, a) THEN 1 ELSE 0

Milliseconds(song) ==
  IF "milliseconds" \in DOMAIN song.duration
    THEN song.duration.milliseconds ELSE Undefined

AlbumName(song) ==
  IF "name" \in DOMAIN song.album THEN song.album.name ELSE Undefined

AlbumUri(song) ==
  IF "uri" \in DOMAIN song.album THEN song.album.uri ELSE Undefined

\* a.album?.name || ""
AlbumNameOrEmpty(song) ==
  IF TypeOf(AlbumName(song)) = "string" THEN AlbumName(song).v ELSE <<>>

\* The comparator of sortSongs for a sort key; "date" is also the
\* comparator of the export.
Compare(key, a, b) ==
  CASE key = "name" -> Sign(a.name.v, b.name.v)
    [] key = "album" -> Sign(AlbumNameOrEmpty(a), AlbumNameOrEmpty(b))
    [] key = "date" -> a.listenDate.v - b.listenDate.v
    [] key = "duration" -> Milliseconds(a).v - Milliseconds(b).v
    [] OTHER -> 0

\* An unstable sort: x goes in front of the elements it compares equal to.
RECURSIVE InsertSortedBeforeEqual(_, _, _)
InsertSortedBeforeEqual(sorted, x, key) ==
  IF sorted = <<>> THEN <<x>>
  ELSE IF Compare(key, x, Head(sorted)) <= 0 THEN <<x>> \o sorted
  ELSE <<Head(sorted)>> \o InsertSortedBeforeEqual(Tail(sorted), x, key)

\* Array.prototype.sort is stable: x goes behind every element that does
\* not compare greater than it.
RECURSIVE InsertSorted(_, _, _)
InsertSorted(sorted, x, key) ==
  IF sorted = <<>> THEN <<x>>
  ELSE IF Compare(key, x, Head(sorted)) < 0 THEN <<x>> \o sorted
  ELSE <<Head(sorted)>> \o InsertSorted(Tail(sorted), x, key)

RECURSIVE SortByKey(_, _)
SortByKey(songs, key) ==
  IF songs = <<>> THEN <<>>
  ELSE InsertSorted(SortByKey(SubSeq(songs, 1, Len(songs) - 1), key),
                    songs[Len(songs)], key)

Reverse(s) == [i \in 1..Len(s) |-> s[Len(s) + 1 - i]]

\* A descending order of its own that keeps equal keys in input order.
sortSongsStableDescending(songs, config) ==
  IF config.ascending THEN SortByKey(songs, config.key)
  ELSE Reverse(SortByKey(Reverse(songs), config.key))

sortSongs(songs, config) ==
  IF config.ascending THEN SortByKey(songs, config.key)
  ELSE Reverse(SortByKey(songs, config.key))

SortKeys == {"name", "album", "date", "duration"}

\* ------------------------------------------------------------ filtering
\* A toLowerCase that changes nothing.
ToLowerIdentity(str) == str

\* String.prototype.toLowerCase on character codes: A..Z become a..z.
ToLower(str) ==
  [i \in 1..Len(str) |-> IF str[i] \in 65..90 THEN str[i] + 32 ELSE str[i]]

\* String.prototype.includes
Includes(hay, needle) ==
  \E off \in 0..(Len(hay) - Len(needle)) :
    SubSeq(hay, off + 1, off + Len(needle)) = needle

\* The predicate of songs.filter in handleSearchChange.
Matches(song, query) ==
  \/ Includes(ToLower(song.name.v), query)
  \/ /\ TypeOf(AlbumName(song)) = "string"
     /\ Includes(ToLower(AlbumName(song).v), query)
  \/ \E i \in 1..Len(song.artists.v) :
       Includes(ToLower(song.artists.v[i].name.v), query)

Filter(list, query) ==
  LET Keep(song) == Matches(song, query) IN SelectSeq(list, Keep)

\* ---------------------------------------------------- JSON and validation
\* JSON.stringify drops a property whose value is undefined.
JsonProp(v) == IF v = Undefined THEN Absent ELSE v

\* A serialisation that loses the listenDate.
JsonOfSongNoDate(song) ==
  [uid |-> JsonProp(song.uid), uri |-> JsonProp(song.uri),
   name |-> JsonProp(song.name), duration |-> song.duration,
   album |-> song.album, artists |-> song.artists,
   metadata |-> JsonProp(song.metadata), images |-> song.images,
   listenDate |-> Absent]

JsonOfSong(song) ==
  [uid |-> JsonProp(song.uid), uri |-> JsonProp(song.uri),
   name |-> JsonProp(song.name),
   duration |-> IF "milliseconds" \in DOMAIN song.duration
                  THEN [milliseconds |-> JsonProp(song.duration.milliseconds)]
                  ELSE song.duration,
   album |-> [name |-> JsonProp(AlbumName(song)), uri |-> JsonProp(AlbumUri(song))],
   artists |-> song.artists, metadata |-> JsonProp(song.metadata),
   images |-> song.images, listenDate |-> JsonProp(song.listenDate)]

\* JSON.parse(JSON.stringify(history, null, 2))
JsonOfHistory(history) == [i \in 1..Len(history) |-> JsonOfSong(history[i])]

\* A validation that does not look at the images.
isValidSongNoImages(song) ==
  /\ TypeOf(song.uid) = "string"
  /\ TypeOf(song.uri) = "string"
  /\ TypeOf(song.name) = "string"
  /\ TypeOf(Milliseconds(song)) = "number"
  /\ TypeOf(AlbumName(song)) = "string"
  /\ TypeOf(AlbumUri(song)) = "string"
  /\ song.artists.t = "array"
  /\ \A i \in 1..Len(song.artists.v) :
       /\ TypeOf(song.artists.v[i].name) = "string"
       /\ TypeOf(song.artists.v[i].uri) = "string"
  /\ TypeOf(song.listenDate) = "number"
  /\ TypeOf(song.metadata) = "object"
  /\ song.metadata # Null

isValidSong(song) ==
  /\ TypeOf(song.uid) = "string"
  /\ TypeOf(song.uri) = "string"
  /\ TypeOf(song.name) = "string"
  /\ TypeOf(Milliseconds(song)) = "number"
  /\ TypeOf(AlbumName(song)) = "string"
  /\ TypeOf(AlbumUri(song)) = "string"
  /\ song.artists.t = "array"
  /\ \A i \in 1..Len(song.artists.v) :
       /\ TypeOf(song.artists.v[i].name) = "string"
       /\ TypeOf(song.artists.v[i].uri) = "string"
  /\ TypeOf(song.listenDate) = "number"
  /\ song.images.t = "array"
  /\ \A i \in 1..Len(song.images.v) :
       /\ TypeOf(song.images.v[i].label) = "string"
       /\ TypeOf(song.images.v[i].url) = "string"
  /\ TypeOf(song.metadata) = "object"
  /\ song.metadata # Null

\* ------------------------------------------------------ import documents
\* Elements a picked file may hold: exported songs, and one element with
\* the duration missing.
ImportSongs ==
  { JsonOfSong(MkSong(TrackOf(u, u), MaxTime)) : u \in Uids \cap Uris }

NoDuration ==
  [JsonOfSong(MkSong(TrackOf(Str(<<1>>), Str(<<1>>)), 1))
     EXCEPT !.duration = Absent]

ImportElems == ImportSongs \cup {NoDuration}

ImportDocs ==
  UNION { [1..n -> ImportElems] : n \in 0..MaxDoc }

\* The loop of importHistoryAsFile: the elements before the first invalid
\* one are handed to objectStore.add, then the loop throws.
RECURSIVE ValidPrefix(_)
ValidPrefix(doc) ==
  IF doc = <<>> \/ ~isValidSong(Head(doc)) THEN <<>>
  ELSE <<Head(doc)>> \o ValidPrefix(Tail(doc))

LoopThrows(doc) == \E i \in 1..Len(doc) : ~isValidSong(doc[i])

\* --------------------------------------- the operations run one at a time
\* The larger listenDate: what an update would keep if it accumulated.
UpdatedSongMax(foundSong, song) ==
  IF song.listenDate.v > foundSong.listenDate.v
    THEN [foundSong EXCEPT !.listenDate = song.listenDate] ELSE foundSong

\* The incoming record written over the found one.
UpdatedSongOverwrite(foundSong, song) == song

\* foundSong.listenDate = song.listenDate
UpdatedSong(foundSong, song) == [foundSong EXCEPT !.listenDate = song.listenDate]

\* saveSongToDB run alone: lookup by uri, then put or add.
UpsertEffect(s, song) ==
  LET foundSong == IndexGet(s, song.uri)
  IN IF foundSong # Undefined
       THEN StorePut(s, UpdatedSong(foundSong, song)).store
       ELSE StoreAdd(s, song).store

RECURSIVE AddAll(_, _)
AddAll(s, adds) ==
  IF adds = <<>> THEN [ok |-> TRUE, store |-> s]
  ELSE LET r == StoreAdd(s, Head(adds))
       IN IF r.ok THEN AddAll(r.store, Tail(adds)) ELSE [ok |-> FALSE, store |-> s]

\* importHistoryAsFile run alone: a failed add aborts the transaction.
ImportEffect(s, doc) ==
  LET r == AddAll(s, ValidPrefix(doc)) IN IF r.ok THEN r.store ELSE s

\* ------------------------------------------------------------------ state
VARIABLES
  store,       \* the committed records of the object store "history"
  txns,        \* the live transactions, in creation order
  sortConfig,  \* the sort configuration of the history page
  exported,    \* <<>> or <<document>>: a downloaded export the user kept
  origin,      \* the records the kept export was made from
  last,        \* how the transaction that finished last ended
  serial,      \* the store had every operation run alone, in arrival order
  chain,       \* per uri: the upserts since the uri was first upserted
  songsFromDB, \* the records the history page fetched last
  songs,       \* the page's sorted list
  filteredSongs, \* the list the page displays
  searchQuery, \* the content of the search box, lower-cased
  debounce,    \* <<>> or the pending search timer
  listener,    \* the extension: "starting", "registered" or "failed"
  available,   \* whether indexedDB.open succeeds at present
  created,     \* whether the database holds the object store "history"
  fetches      \* the fetchHistory calls that wait for openDB, in call order

\* The state of the history page's lists.
ui == <<songsFromDB, songs, filteredSongs, searchQuery, debounce>>

\* The extension's listener, the database, and the page's pending fetches.
host == <<listener, available, created, fetches>>

vars ==
  <<store, txns, sortConfig, exported, origin, last, serial, chain, ui, host>>

NoSong == Undefined

NewTxn(kind, mode) ==
  [kind |-> kind, mode |-> mode, stage |-> "request", song |-> NoSong,
   key |-> Undefined, adds |-> <<>>, doc |-> <<>>, found |-> Undefined,
   work |-> <<>>, outcome |-> "pending", notes |-> {}, handlers |-> FALSE,
   raced |-> FALSE, error |-> "none", reason |-> Undefined,
   config |-> [key |-> "date", ascending |-> FALSE]]

Summary(t) ==
  [kind |-> t.kind, stage |-> t.stage, outcome |-> t.outcome,
   notes |-> t.notes, raced |-> t.raced, error |-> t.error,
   reason |-> t.reason]

NoChain == [u \in Uris |-> <<>>]

Init ==
  /\ store = {}
  /\ txns = <<>>
  /\ sortConfig = [key |-> "date", ascending |-> FALSE]
  /\ exported = <<>>
  /\ origin = {}
  /\ last = Summary(NewTxn("none", "readonly"))
  /\ serial = {}
  /\ chain = NoChain
  /\ songsFromDB = <<>>
  /\ songs = <<>>
  /\ filteredSongs = <<>>
  /\ searchQuery = <<>>
  /\ debounce = <<>>
  /\ listener = "registered"
  /\ available = TRUE
  /\ created = TRUE
  /\ fetches = <<>>

\* (event.target as IDBRequest).error?.message || "Unknown error"
ErrorMessage(error) ==
  IF error = "ConstraintError" THEN Str(<<67>>) ELSE Str(<<85>>)

\* A request of saveSongToDB fails: its onerror rejects with the message,
\* and the unhandled error aborts the transaction.
Rejected(t, error) ==
  [t EXCEPT !.outcome = "rejected", !.stage = "aborted",
            !.error = error, !.reason = ErrorMessage(error)]

\* A queued add of the import fails: the transaction aborts, and its
\* onerror handler, when attached, shows the failure.
ImportAborted(t, error) ==
  [t EXCEPT !.stage = "aborted", !.error = error,
            !.notes = IF t.handlers
                        THEN @ \cup {"Failed to import history"} ELSE @]

\* Transactions that do not wait for each other.
RunnableAny(i) == TRUE

\* The transaction created last runs first.
RunnableLast(i) == i = Len(txns)

\* A readwrite transaction starts when every transaction created before it
\* has finished; a readonly one when no earlier readwrite one is live.
Runnable(i) ==
  IF txns[i].mode = "readonly"
    THEN \A j \in 1..(i - 1) : txns[j].mode = "readonly"
    ELSE i = 1

\* The records transaction t sees.
View(t) == IF t.work = <<>> THEN store ELSE t.work[1]

RemoveAt(seq, i) == SubSeq(seq, 1, i - 1) \o SubSeq(seq, i + 1, Len(seq))

\* The transaction at position i finishes as t: committed or aborted.
Finish(i, t, committed) ==
  /\ txns' = RemoveAt(txns, i)
  /\ last' = Summary(t)
  /\ store' = IF committed /\ t.mode = "readwrite" THEN View(t) ELSE store

\* --------------------------------------------- extension.tsx: songchange
\* A listener that saves whatever item is playing.
ListenerAnyItem(item, now) ==
  IF item.type # "none"
    THEN /\ Len(txns) < MaxTxns
         /\ LET song == MkSong(item, now)
            IN /\ txns' = Append(txns,
                    [NewTxn("save", "readwrite") EXCEPT
                       !.song = song, !.stage = "get",
                       !.raced = \E j \in 1..Len(txns) :
                                    /\ txns[j].kind = "save"
                                    /\ txns[j].song.uri = song.uri])
               /\ serial' = UpsertEffect(serial, song)
         /\ UNCHANGED <<store, sortConfig, exported, origin, last>>
    ELSE UNCHANGED <<store, txns, sortConfig, exported, origin, last, serial>>

\* The listener builds currentSong and calls saveSongToDB, which opens its
\* transaction and issues index.get before the listener first suspends.
Listener(item, now) ==
  IF item.type = "track"
    THEN /\ Len(txns) < MaxTxns
         /\ LET song == MkSong(item, now)
            IN /\ txns' = Append(txns,
                    [NewTxn("save", "readwrite") EXCEPT
                       !.song = song, !.stage = "get",
                       !.raced = \E j \in 1..Len(txns) :
                                    /\ txns[j].kind = "save"
                                    /\ txns[j].song.uri = song.uri])
               /\ serial' = UpsertEffect(serial, song)
         /\ UNCHANGED <<store, sortConfig, exported, origin, last>>
    ELSE UNCHANGED <<store, txns, sortConfig, exported, origin, last, serial>>

SongChange(item, now) == Listener(item, now) /\ UNCHANGED <<chain, ui, host>>

\* The upsert chain of song.uri once song has arrived.
ChainAfter(song) ==
  LET u == song.uri
  IN IF chain[u] # <<>>
       THEN [chain EXCEPT ![u] = <<[chain[u][1] EXCEPT !.ts = song.listenDate]>>]
       ELSE IF \E r \in serial : r.uri = u
         THEN chain
         ELSE [chain EXCEPT ![u] = <<[first |-> song, ts |-> song.listenDate,
                                       ok |-> StoreAdd(serial, song).ok]>>]

\* The same listener, with the upserts of each uri recorded.
TrackedSongChange(item, now) ==
  /\ Listener(item, now)
  /\ chain' = IF item.type = "track" THEN ChainAfter(MkSong(item, now)) ELSE chain
  /\ UNCHANGED <<ui, host>>

\* indexRequest.onsuccess
SaveLookup(i) ==
  /\ txns[i].kind = "save" /\ txns[i].stage = "get" /\ Runnable(i)
  /\ LET foundSong == IndexGet(View(txns[i]), txns[i].song.uri)
     IN txns' = [txns EXCEPT ![i].found = foundSong,
                             ![i].work = <<View(txns[i])>>,
                             ![i].stage = IF foundSong # Undefined THEN "put" ELSE "add"]
  /\ UNCHANGED <<store, sortConfig, exported, origin, last, serial, chain, ui, host>>

\* objectStore.put(foundSong) and its handlers
SaveUpdate(i) ==
  /\ txns[i].kind = "save" /\ txns[i].stage = "put" /\ Runnable(i)
  /\ LET t == txns[i]
         r == StorePut(View(t), UpdatedSong(t.found, t.song))
     IN IF r.ok
          THEN /\ txns' = [txns EXCEPT ![i].work = <<r.store>>,
                                       ![i].outcome = "resolved",
                                       ![i].stage = "done"]
               /\ UNCHANGED <<store, last>>
          ELSE Finish(i, Rejected(t, "ConstraintError"), FALSE)
  /\ UNCHANGED <<sortConfig, exported, origin, serial, chain, ui, host>>

\* objectStore.add(song) and its handlers
SaveAdd(i) ==
  /\ txns[i].kind = "save" /\ txns[i].stage = "add" /\ Runnable(i)
  /\ LET t == txns[i]
         r == StoreAdd(View(t), t.song)
     IN IF r.ok
          THEN /\ txns' = [txns EXCEPT ![i].work = <<r.store>>,
                                       ![i].outcome = "resolved",
                                       ![i].stage = "done"]
               /\ UNCHANGED <<store, last>>
          ELSE Finish(i, Rejected(t, "ConstraintError"), FALSE)
  /\ UNCHANGED <<sortConfig, exported, origin, serial, chain, ui, host>>

\* ------------------------------------------------- deleteSongFromDB
DeleteSong(uid) ==
  /\ Len(txns) < MaxTxns
  /\ txns' = Append(txns, [NewTxn("delete", "readwrite") EXCEPT
                             !.key = uid, !.notes = {"Deleting song..."}])
  /\ serial' = StoreDelete(serial, uid)
  /\ chain' = NoChain
  /\ UNCHANGED <<ui, host>>
  /\ UNCHANGED <<store, sortConfig, exported, origin, last>>

DeleteRequest(i) ==
  /\ txns[i].kind = "delete" /\ txns[i].stage = "request" /\ Runnable(i)
  /\ txns' = [txns EXCEPT ![i].work = <<StoreDelete(View(txns[i]), txns[i].key)>>,
                          ![i].outcome = "resolved",
                          ![i].notes = @ \cup {"Song deleted"},
                          ![i].stage = "done"]
  /\ UNCHANGED <<store, sortConfig, exported, origin, last, serial, chain, ui, host>>

\* ------------------------------------------------- clearHistoryFromDB
ClearHistory ==
  /\ Len(txns) < MaxTxns
  /\ txns' = Append(txns, [NewTxn("clear", "readwrite") EXCEPT
                             !.notes = {"Clearing history..."}])
  /\ serial' = StoreClear(serial)
  /\ chain' = NoChain
  /\ UNCHANGED <<ui, host>>
  /\ UNCHANGED <<store, sortConfig, exported, origin, last>>

ClearRequest(i) ==
  /\ txns[i].kind = "clear" /\ txns[i].stage = "request" /\ Runnable(i)
  /\ txns' = [txns EXCEPT ![i].work = <<StoreClear(View(txns[i]))>>,
                          ![i].outcome = "resolved",
                          ![i].notes = @ \cup {"History cleared"},
                          ![i].stage = "done"]
  /\ UNCHANGED <<store, sortConfig, exported, origin, last, serial, chain, ui, host>>

\* ------------------------------------------------- exportHistoryAsFile
ExportHistory ==
  /\ Len(txns) < MaxTxns
  /\ txns' = Append(txns, [NewTxn("export", "readonly") EXCEPT
                             !.notes = {"Exporting history..."}])
  /\ UNCHANGED <<store, sortConfig, exported, origin, last, serial, chain, ui, host>>

\* The export in the order the page displays.
ExportOrderAsDisplayed(history) == sortSongs(history, sortConfig)

\* history.sort((a, b) => a.listenDate - b.listenDate)
ExportOrder(history) == SortByKey(history, "date")

\* An export that never takes the store for empty.
NothingToExportNever(history) == FALSE

\* history.length === 0
NothingToExport(history) == Len(history) = 0

\* getAll's onsuccess resolves getHistoryFromDB and the export goes on:
\* doc is the content of the file it downloads, <<>> when it makes none.
ExportGetAll(i) ==
  /\ txns[i].kind = "export" /\ txns[i].stage = "request" /\ Runnable(i)
  /\ LET history == StoreGetAll(View(txns[i]))
     IN IF NothingToExport(history)
          THEN txns' = [txns EXCEPT ![i].outcome = "resolved",
                                    ![i].notes = @ \cup {"No history to export"},
                                    ![i].stage = "done"]
          ELSE txns' = [txns EXCEPT ![i].outcome = "resolved",
                                    ![i].notes = @ \cup {"History exported"},
                                    ![i].doc = JsonOfHistory(ExportOrder(history)),
                                    ![i].stage = "done"]
  /\ UNCHANGED <<store, sortConfig, exported, origin, last, serial, chain, ui, host>>

\* The user keeps the file an export has downloaded.
KeepFile(i) ==
  /\ txns[i].kind = "export" /\ txns[i].stage = "done" /\ txns[i].doc # <<>>
  /\ exported' = <<txns[i].doc>>
  /\ origin' = View(txns[i])
  /\ UNCHANGED <<store, txns, sortConfig, last, serial, chain, ui, host>>

\* ------------------------------------------------- importHistoryAsFile
\* After file.text(): parse, open the transaction, run the loop.
ImportHistory(doc) ==
  /\ Len(txns) < MaxTxns
  /\ txns' = Append(txns,
       [NewTxn("import", "readwrite") EXCEPT
          !.doc = doc,
          !.adds = ValidPrefix(doc),
          !.handlers = ~LoopThrows(doc),
          !.notes = IF LoopThrows(doc)
                      THEN {"Importing history...", "Failed to import history"}
                      ELSE {"Importing history..."},
          !.outcome = "resolved",
          !.stage = IF ValidPrefix(doc) = <<>> THEN "done" ELSE "add"])
  /\ serial' = ImportEffect(serial, doc)
  /\ chain' = NoChain
  /\ UNCHANGED <<ui, host>>
  /\ UNCHANGED <<store, sortConfig, exported, origin, last>>

\* The user picks the export kept before.
ImportExported ==
  /\ exported # <<>>
  /\ ImportHistory(exported[1])

\* One queued objectStore.add(song) of the import runs.  A failed add is
\* not handled, so it aborts the transaction.
ImportAdd(i) ==
  /\ txns[i].kind = "import" /\ txns[i].stage = "add" /\ Runnable(i)
  /\ LET t == txns[i]
         r == StoreAdd(View(t), Head(t.adds))
     IN IF r.ok
          THEN /\ txns' = [txns EXCEPT
                             ![i].work = <<r.store>>,
                             ![i].adds = Tail(t.adds),
                             ![i].stage = IF Tail(t.adds) = <<>> THEN "done" ELSE "add"]
               /\ UNCHANGED <<store, last>>
          ELSE Finish(i, ImportAborted(t, "ConstraintError"), FALSE)
  /\ UNCHANGED <<sortConfig, exported, origin, serial, chain, ui, host>>

\* ------------------------------------------------- transaction completion
\* No request is pending: the transaction commits; the import's oncomplete
\* handler, when attached, reports success.
TxnComplete(i) ==
  /\ txns[i].stage = "done" /\ Runnable(i)
  /\ Finish(i, [txns[i] EXCEPT
                  !.stage = "complete",
                  !.notes = IF txns[i].kind = "import" /\ txns[i].handlers
                              THEN @ \cup {"History imported"} ELSE @], TRUE)
  /\ UNCHANGED <<sortConfig, exported, origin, serial, chain, ui, host>>

\* ------------------------------------------------- app.tsx: sortByColumn
\* A selection that toggles the direction whatever the key was.
sortByColumnAlwaysToggle(key) ==
  /\ sortConfig' = [key |-> key, ascending |-> ~sortConfig.ascending]
  /\ UNCHANGED <<store, txns, exported, origin, last, serial, chain, ui, host>>

sortByColumn(key) ==
  /\ sortConfig' = [key |-> key,
                    ascending |-> IF sortConfig.key = key
                                    THEN ~sortConfig.ascending ELSE TRUE]
  /\ UNCHANGED <<store, txns, exported, origin, last, serial, chain, ui, host>>

\* ------------------------------------------------- app.tsx: fetchHistory
\* After getAll has resolved: the fetched records are sorted under the
\* current configuration and shown.
ShowHistory ==
  /\ songs' = sortSongs(songsFromDB, sortConfig)
  /\ filteredSongs' = sortSongs(songsFromDB, sortConfig)
  /\ UNCHANGED <<store, txns, sortConfig, exported, origin, last, serial, chain,
                 songsFromDB, searchQuery, debounce, host>>

\* ------------------------------------------- app.tsx: handleSearchChange
\* The handler lower-cases the typed value and (re)starts the 300 ms timer,
\* whose callback holds the query and the songs of this render.
handleSearchChange(value) ==
  /\ searchQuery' = ToLower(value)
  /\ debounce' = <<[value |-> value, query |-> ToLower(value), songs |-> songs]>>
  /\ UNCHANGED <<store, txns, sortConfig, exported, origin, last, serial, chain,
                 songsFromDB, songs, filteredSongs, host>>

\* The timer fires.
DebounceFires ==
  /\ debounce # <<>>
  /\ filteredSongs' = Filter(debounce[1].songs, debounce[1].query)
  /\ debounce' = <<>>
  /\ UNCHANGED <<store, txns, sortConfig, exported, origin, last, serial, chain,
                 songsFromDB, songs, searchQuery, host>>

\* ------------------------------------------------------- specifications
\* The store under every operation.
Next ==
  \/ \E item \in PlayerItems, now \in Times : SongChange(item, now)
  \/ \E i \in 1..Len(txns) : SaveLookup(i)
  \/ \E i \in 1..Len(txns) : SaveUpdate(i)
  \/ \E i \in 1..Len(txns) : SaveAdd(i)
  \/ \E uid \in Uids : DeleteSong(uid)
  \/ \E i \in 1..Len(txns) : DeleteRequest(i)
  \/ ClearHistory
  \/ \E i \in 1..Len(txns) : ClearRequest(i)
  \/ ExportHistory
  \/ \E i \in 1..Len(txns) : ExportGetAll(i)
  \/ \E doc \in ImportDocs : ImportHistory(doc)
  \/ \E i \in 1..Len(txns) : ImportAdd(i)
  \/ \E i \in 1..Len(txns) : TxnComplete(i)

Spec == Init /\ [][Next]_vars

\* Upserts and deletes, with the upserts of each uri recorded.
NextChain ==
  \/ \E item \in PlayerItems, now \in Times : TrackedSongChange(item, now)
  \/ \E i \in 1..Len(txns) : SaveLookup(i)
  \/ \E i \in 1..Len(txns) : SaveUpdate(i)
  \/ \E i \in 1..Len(txns) : SaveAdd(i)
  \/ \E uid \in Uids : DeleteSong(uid)
  \/ \E i \in 1..Len(txns) : DeleteRequest(i)
  \/ \E i \in 1..Len(txns) : TxnComplete(i)

SpecChain == Init /\ [][NextChain]_vars

\* The songs a store of up to MaxRows records may hold.
RowSongs ==
  {MkSong(TrackOf(u, c), now) : u \in RowIds, c \in RowIds, now \in Times}
  \cup {MkSong(BareTrack, now) : now \in Times}

IsStore(s) ==
  \A a, b \in s : (a.uid = b.uid \/ a.uri = b.uri) => a = b

RECURSIVE StoresUpTo(_)
StoresUpTo(n) ==
  IF n = 0 THEN {{}}
  ELSE LET smaller == StoresUpTo(n - 1)
       IN smaller \cup
          {t \in {s \cup {r} : s \in smaller, r \in RowSongs} : IsStore(t)}

RowStores == StoresUpTo(MaxRows)

\* The history page opened on a store that earlier sessions have filled.
InitTransfer ==
  /\ store \in RowStores
  /\ txns = <<>>
  /\ sortConfig = [key |-> "date", ascending |-> FALSE]
  /\ exported = <<>>
  /\ origin = {}
  /\ last = Summary(NewTxn("none", "readonly"))
  /\ serial = store
  /\ chain = NoChain
  /\ songsFromDB = <<>>
  /\ songs = <<>>
  /\ filteredSongs = <<>>
  /\ searchQuery = <<>>
  /\ debounce = <<>>
  /\ listener = "registered"
  /\ available = TRUE
  /\ created = TRUE
  /\ fetches = <<>>

\* Exports under every sort configuration.
NextExport ==
  \/ ExportHistory
  \/ \E i \in 1..Len(txns) : ExportGetAll(i)
  \/ \E i \in 1..Len(txns) : TxnComplete(i)
  \/ \E key \in SortKeys : sortByColumn(key)

SpecExport == InitTransfer /\ [][NextExport]_vars

\* Export, clear, and import of the exported file.
NextRoundTrip ==
  \/ ExportHistory
  \/ \E i \in 1..Len(txns) : ExportGetAll(i)
  \/ \E i \in 1..Len(txns) : KeepFile(i)
  \/ ClearHistory
  \/ \E i \in 1..Len(txns) : ClearRequest(i)
  \/ ImportExported
  \/ \E i \in 1..Len(txns) : ImportAdd(i)
  \/ \E i \in 1..Len(txns) : TxnComplete(i)

SpecRoundTrip == InitTransfer /\ [][NextRoundTrip]_vars

\* Deletes, clears and exports on a filled store.
NextManage ==
  \/ \E uid \in RowIds : DeleteSong(uid)
  \/ \E i \in 1..Len(txns) : DeleteRequest(i)
  \/ ClearHistory
  \/ \E i \in 1..Len(txns) : ClearRequest(i)
  \/ ExportHistory
  \/ \E i \in 1..Len(txns) : ExportGetAll(i)
  \/ \E i \in 1..Len(txns) : TxnComplete(i)

SpecManage == InitTransfer /\ [][NextManage]_vars

\* The records the page's lists are made of: ties in listenDate (1, 3), in
\* duration (1, 2) and in album name (2, 3); titles, album names and artist
\* names in mixed case.
ViewItems ==
  { [type |-> "track", uid |-> Str(<<1>>), uri |-> Str(<<1>>),
     name |-> Str(<<82, 104>>), duration |-> DurationA,
     album |-> [name |-> Str(<<79, 112>>), uri |-> Str(<<4>>)],
     artists |-> <<[name |-> Str(<<81, 117>>), uri |-> Str(<<6>>)]>>,
     images |-> <<ImageI>>, metadata |-> MetaObj, at |-> 1],
    [type |-> "track", uid |-> Str(<<2>>), uri |-> Str(<<2>>),
     name |-> Str(<<79, 80>>), duration |-> DurationA,
     album |-> Undefined,
     artists |-> <<>>,
     images |-> <<>>, metadata |-> MetaObj, at |-> 2],
    [type |-> "track", uid |-> Str(<<3>>), uri |-> Str(<<3>>),
     name |-> Str(<<120>>), duration |-> DurationB,
     album |-> [name |-> Str(<<>>), uri |-> Str(<<4>>)],
     artists |-> <<[name |-> Str(<<97, 98>>), uri |-> Str(<<6>>)],
                   [name |-> Str(<<81, 117>>), uri |-> Str(<<6>>)]>>,
     images |-> <<ImageI>>, metadata |-> MetaObj, at |-> 1] }

ViewSongs == {MkSong(item, item.at) : item \in ViewItems}

\* The arrays handed to sortSongs and to songs.filter.
SongLists == UNION { [1..n -> ViewSongs] : n \in 0..MaxList }

\* What the user types into the search box: "", "rh", "OP", "QU", "z".
SearchValues == {<<>>, <<114, 104>>, <<79, 80>>, <<81, 85>>, <<122>>}

\* The history page with a fetch that has just resolved.
InitView ==
  /\ store = {}
  /\ txns = <<>>
  /\ sortConfig = [key |-> "date", ascending |-> FALSE]
  /\ exported = <<>>
  /\ origin = {}
  /\ last = Summary(NewTxn("none", "readonly"))
  /\ serial = {}
  /\ chain = NoChain
  /\ songsFromDB \in SongLists
  /\ songs = <<>>
  /\ filteredSongs = <<>>
  /\ searchQuery = <<>>
  /\ debounce = <<>>
  /\ listener = "registered"
  /\ available = TRUE
  /\ created = TRUE
  /\ fetches = <<>>

\* Sorting under every sort configuration.
NextSort ==
  \/ ShowHistory
  \/ \E key \in SortKeys : sortByColumn(key)

SpecSort == InitView /\ [][NextSort]_vars

\* Searching the shown list.
NextFilter ==
  \/ ShowHistory
  \/ \E key \in SortKeys : sortByColumn(key)
  \/ \E value \in SearchValues : handleSearchChange(value)
  \/ DebounceFires

SpecFilter == InitView /\ [][NextFilter]_vars

\* ------------------------------------------------ startup and refresh
\* An open that creates the store again every time.
UpgradedAnew(s, exists) == {}

\* onupgradeneeded creates the object store "history" only when the
\* database does not hold it; an existing store is left as it is.
Upgraded(s, exists) == IF exists THEN s ELSE {}

\* The client before the extension has run: the database may not exist
\* yet, and the storage engine may be unavailable.
InitStartup ==
  /\ store = {}
  /\ txns = <<>>
  /\ sortConfig = [key |-> "date", ascending |-> FALSE]
  /\ exported = <<>>
  /\ origin = {}
  /\ last = Summary(NewTxn("none", "readonly"))
  /\ serial = {}
  /\ chain = NoChain
  /\ songsFromDB = <<>>
  /\ songs = <<>>
  /\ filteredSongs = <<>>
  /\ searchQuery = <<>>
  /\ debounce = <<>>
  /\ listener = "starting"
  /\ available \in BOOLEAN
  /\ created = FALSE
  /\ fetches = <<>>

\* The extension's "const db = await openDB()" settles.  When it rejects,
\* the async function ends there and addEventListener is never reached.
ExtensionStart ==
  /\ listener = "starting"
  /\ IF available
       THEN /\ listener' = "registered"
            /\ store' = Upgraded(store, created)
            /\ created' = TRUE
       ELSE /\ listener' = "failed"
            /\ UNCHANGED <<store, created>>
  /\ UNCHANGED <<txns, sortConfig, exported, origin, last, serial, chain, ui,
                 available, fetches>>

\* The storage engine stops or starts being able to open the database.
Availability ==
  /\ available' = ~available
  /\ UNCHANGED <<store, txns, sortConfig, exported, origin, last, serial,
                 chain, ui, listener, created, fetches>>

\* The client is closed and started again: the connections close, the
\* transactions still live are aborted, the page state is gone and the
\* extension runs from its first line.
Restart ==
  /\ listener # "starting"
  /\ listener' = "starting"
  /\ txns' = <<>>
  /\ fetches' = <<>>
  /\ last' = Summary(NewTxn("restart", "readonly"))
  /\ songsFromDB' = <<>>
  /\ songs' = <<>>
  /\ filteredSongs' = <<>>
  /\ searchQuery' = <<>>
  /\ debounce' = <<>>
  /\ UNCHANGED <<store, sortConfig, exported, origin, serial, chain,
                 available, created>>

\* An event whose listener is gone once an upsert has been rejected.
PlayedEventUntilFailure(item, now) ==
  /\ Len(fetches) < MaxFetch
  /\ IF listener = "registered" /\ last.outcome # "rejected"
       THEN Listener(item, now)
       ELSE UNCHANGED <<store, txns, sortConfig, exported, origin, last, serial>>
  /\ fetches' = Append(fetches,
       [config |-> sortConfig,
        song |-> IF listener = "registered" /\ item.type = "track"
                   THEN MkSong(item, now) ELSE NoSong])
  /\ UNCHANGED <<chain, ui, listener, available, created>>

\* The player fires "songchange": the extension's listener, when it was
\* registered, runs first; then the page's handleSongChange calls
\* fetchHistory, which starts with "await openDB()".
PlayedEvent(item, now) ==
  /\ Len(fetches) < MaxFetch
  /\ IF listener = "registered"
       THEN Listener(item, now)
       ELSE UNCHANGED <<store, txns, sortConfig, exported, origin, last, serial>>
  /\ fetches' = Append(fetches,
       [config |-> sortConfig,
        song |-> IF listener = "registered" /\ item.type = "track"
                   THEN MkSong(item, now) ELSE NoSong])
  /\ UNCHANGED <<chain, ui, listener, available, created>>

\* The openDB of the oldest waiting fetchHistory settles: getHistoryFromDB
\* opens its readonly transaction and issues getAll, or, when the open
\* failed, fetchHistory logs the error and ends.
FetchOpen ==
  /\ fetches # <<>>
  /\ fetches' = Tail(fetches)
  /\ IF available
       THEN /\ Len(txns) < MaxTxns
            /\ store' = Upgraded(store, created)
            /\ created' = TRUE
            /\ txns' = Append(txns,
                 [NewTxn("fetch", "readonly") EXCEPT
                    !.stage = "getAll",
                    !.song = Head(fetches).song,
                    !.config = Head(fetches).config])
       ELSE UNCHANGED <<store, created, txns>>
  /\ UNCHANGED <<sortConfig, exported, origin, last, serial, chain, ui,
                 listener, available>>

\* getAll's onsuccess resolves getHistoryFromDB; fetchHistory sorts the
\* songs with the sortConfig it captured and sets the page's lists.
FetchGetAll(i) ==
  /\ txns[i].kind = "fetch" /\ txns[i].stage = "getAll" /\ Runnable(i)
  /\ LET fromDB == StoreGetAll(View(txns[i]))
     IN /\ songsFromDB' = fromDB
        /\ songs' = sortSongs(fromDB, txns[i].config)
        /\ filteredSongs' = sortSongs(fromDB, txns[i].config)
  /\ txns' = [txns EXCEPT ![i].outcome = "resolved", ![i].stage = "done"]
  /\ UNCHANGED <<store, sortConfig, exported, origin, last, serial, chain,
                 searchQuery, debounce, host>>

\* The extension from its start, on a storage engine that may fail to
\* open the database.
NextStartup ==
  \/ ExtensionStart
  \/ Availability
  \/ Restart
  \/ \E item \in {TrackOf(Str(<<1>>), Str(<<1>>)), BareTrack, Episode} :
       PlayedEvent(item, 1)
  \/ FetchOpen
  \/ \E i \in 1..Len(txns) : FetchGetAll(i)
  \/ \E i \in 1..Len(txns) : SaveLookup(i)
  \/ \E i \in 1..Len(txns) : SaveUpdate(i)
  \/ \E i \in 1..Len(txns) : SaveAdd(i)
  \/ \E i \in 1..Len(txns) : TxnComplete(i)

SpecStartup == InitStartup /\ [][NextStartup]_vars

\* Plays, each followed by the page's refresh.
NextRefresh ==
  \/ \E item \in PlayerItems, now \in Times : PlayedEvent(item, now)
  \/ FetchOpen
  \/ \E i \in 1..Len(txns) : FetchGetAll(i)
  \/ \E i \in 1..Len(txns) : SaveLookup(i)
  \/ \E i \in 1..Len(txns) : SaveUpdate(i)
  \/ \E i \in 1..Len(txns) : SaveAdd(i)
  \/ \E i \in 1..Len(txns) : TxnComplete(i)

SpecRefresh == Init /\ [][NextRefresh]_vars

\* The pending request of a save or an import fails in the storage engine
\* for a reason other than a constraint (quota, disk, internal error): the
\* request's onerror handler runs, or, in the import, the unhandled error
\* aborts the transaction and transaction.onerror runs.
RequestFails(i) ==
  /\ txns[i].kind \in {"save", "import"}
  /\ txns[i].stage \in {"get", "put", "add"}
  /\ Runnable(i)
  /\ IF txns[i].kind = "save"
       THEN Finish(i, Rejected(txns[i], "UnknownError"), FALSE)
       ELSE Finish(i, ImportAborted(txns[i], "UnknownError"), FALSE)
  /\ UNCHANGED <<sortConfig, exported, origin, serial, chain, ui, host>>

\* Upserts and imports of one element on a storage engine whose requests
\* may fail.
NextFault ==
  \/ \E item \in Tracks : SongChange(item, 1)
  \/ \E i \in 1..Len(txns) : SaveLookup(i)
  \/ \E i \in 1..Len(txns) : SaveUpdate(i)
  \/ \E i \in 1..Len(txns) : SaveAdd(i)
  \/ \E doc \in ImportDocs : Len(doc) = 1 /\ ImportHistory(doc)
  \/ \E i \in 1..Len(txns) : ImportAdd(i)
  \/ \E i \in 1..Len(txns) : RequestFails(i)
  \/ \E i \in 1..Len(txns) : TxnComplete(i)

SpecFault == Init /\ [][NextFault]_vars

\* ------------------------------------------------ the page over a history
\* The history page just mounted over a stored history: the effect that
\* runs on mount has called fetchHistory, which waits for openDB.
InitPage ==
  /\ store \in SUBSET ViewSongs
  /\ txns = <<>>
  /\ sortConfig = [key |-> "date", ascending |-> FALSE]
  /\ exported = <<>>
  /\ origin = {}
  /\ last = Summary(NewTxn("none", "readonly"))
  /\ serial = store
  /\ chain = NoChain
  /\ songsFromDB = <<>>
  /\ songs = <<>>
  /\ filteredSongs = <<>>
  /\ searchQuery = <<>>
  /\ debounce = <<>>
  /\ listener = "registered"
  /\ available = TRUE
  /\ created = TRUE
  /\ fetches = <<[config |-> [key |-> "date", ascending |-> FALSE],
                  song |-> NoSong]>>

\* sortByColumn, and the effect that depends on fetchHistory: the new
\* sortConfig makes a new fetchHistory, and the effect calls it.
SortColumnSelected(key) ==
  /\ Len(fetches) < MaxFetch
  /\ LET config == [key |-> key,
                    ascending |-> IF sortConfig.key = key
                                    THEN ~sortConfig.ascending ELSE TRUE]
     IN /\ sortConfig' = config
        /\ fetches' = Append(fetches, [config |-> config, song |-> NoSong])
  /\ UNCHANGED <<store, txns, exported, origin, last, serial, chain, ui,
                 listener, available, created>>

\* Searching while song changes refresh the page.
NextQuery ==
  \/ PlayedEvent(Episode, 1)
  \/ \E value \in SearchValues : handleSearchChange(value)
  \/ DebounceFires
  \/ FetchOpen
  \/ \E i \in 1..Len(txns) : FetchGetAll(i)
  \/ \E i \in 1..Len(txns) : TxnComplete(i)

SpecQuery == InitPage /\ [][NextQuery]_vars

\* Refreshes started by song changes and by changes of the sort
\* configuration, in flight together.
NextRace ==
  \/ \E item \in {Episode, TrackOf(Str(<<1>>), Str(<<1>>))} :
       PlayedEvent(item, MaxTime)
  \/ \E key \in SortKeys : SortColumnSelected(key)
  \/ FetchOpen
  \/ \E i \in 1..Len(txns) : FetchGetAll(i)
  \/ \E i \in 1..Len(txns) : SaveLookup(i)
  \/ \E i \in 1..Len(txns) : SaveUpdate(i)
  \/ \E i \in 1..Len(txns) : SaveAdd(i)
  \/ \E i \in 1..Len(txns) : TxnComplete(i)

SpecRace == InitPage /\ [][NextRace]_vars

\* The history page showing a fetched history, and the file the user is
\* going to import.
InitImport ==
  /\ store \in {{}, {MkSong(TrackOf(Str(<<1>>), Str(<<1>>)), 1)}}
  /\ txns = <<>>
  /\ sortConfig = [key |-> "date", ascending |-> FALSE]
  /\ exported \in {<<doc>> : doc \in ImportDocs}
  /\ origin = {}
  /\ last = Summary(NewTxn("none", "readonly"))
  /\ serial = store
  /\ chain = NoChain
  /\ songsFromDB = StoreGetAll(store)
  /\ songs = sortSongs(StoreGetAll(store), sortConfig)
  /\ filteredSongs = sortSongs(StoreGetAll(store), sortConfig)
  /\ searchQuery = <<>>
  /\ debounce = <<>>
  /\ listener = "registered"
  /\ available = TRUE
  /\ created = TRUE
  /\ fetches = <<>>

\* handleImportHistory with the user's file: importHistoryAsFile opens its
\* transaction, queues the adds and resolves; then fetchHistory is called.
handleImportHistory ==
  /\ Len(txns) < MaxTxns
  /\ Len(fetches) < MaxFetch
  /\ LET doc == exported[1]
     IN /\ txns' = Append(txns,
             [NewTxn("import", "readwrite") EXCEPT
                !.doc = doc,
                !.adds = ValidPrefix(doc),
                !.handlers = ~LoopThrows(doc),
                !.notes = IF LoopThrows(doc)
                            THEN {"Importing history...", "Failed to import history"}
                            ELSE {"Importing history..."},
                !.outcome = "resolved",
                !.stage = IF ValidPrefix(doc) = <<>> THEN "done" ELSE "add"])
        /\ serial' = ImportEffect(serial, doc)
  /\ fetches' = Append(fetches, [config |-> sortConfig, song |-> NoSong])
  /\ UNCHANGED <<store, sortConfig, exported, origin, last, chain, ui,
                 listener, available, created>>

\* Imports from the page, each followed by its refresh, among song changes.
NextImportView ==
  \/ handleImportHistory
  \/ \E i \in 1..Len(txns) : ImportAdd(i)
  \/ \E item \in {Episode, TrackOf(Str(<<2>>), Str(<<2>>))} :
       PlayedEvent(item, MaxTime)
  \/ \E i \in 1..Len(txns) : SaveLookup(i)
  \/ \E i \in 1..Len(txns) : SaveUpdate(i)
  \/ \E i \in 1..Len(txns) : SaveAdd(i)
  \/ FetchOpen
  \/ \E i \in 1..Len(txns) : FetchGetAll(i)
  \/ \E i \in 1..Len(txns) : TxnComplete(i)

SpecImportView == InitImport /\ [][NextImportView]_vars

\* ------------------------------------------------- the engine's progress
\* The storage engine serves the pending request of the transaction at
\* position i, or completes it.
EngineStep(i) ==
  /\ i <= Len(txns)
  /\ \/ SaveLookup(i) \/ SaveUpdate(i) \/ SaveAdd(i)
     \/ DeleteRequest(i) \/ ClearRequest(i) \/ ExportGetAll(i)
     \/ TxnComplete(i)

\* Upserts, deletes, clears and reads of the whole store; the caller may
\* start a new operation at any time or never.
NextLive ==
  \/ \E item \in {TrackOf(Str(<<1>>), Str(<<1>>)), TrackOf(Str(<<1>>), Str(<<2>>))} :
       SongChange(item, 1)
  \/ \E i \in 1..Len(txns) : SaveLookup(i)
  \/ \E i \in 1..Len(txns) : SaveUpdate(i)
  \/ \E i \in 1..Len(txns) : SaveAdd(i)
  \/ DeleteSong(Str(<<1>>))
  \/ \E i \in 1..Len(txns) : DeleteRequest(i)
  \/ ClearHistory
  \/ \E i \in 1..Len(txns) : ClearRequest(i)
  \/ ExportHistory
  \/ \E i \in 1..Len(txns) : ExportGetAll(i)
  \/ \E i \in 1..Len(txns) : TxnComplete(i)

\* The engine does not leave a request it can serve unserved for ever; the
\* caller's actions are under no obligation.
SpecLive ==
  /\ Init
  /\ [][NextLive]_vars
  /\ \A i \in 1..MaxTxns : WF_vars(EngineStep(i))

\* An exported song, the element the malformed ones are made from.
GoodElem == JsonOfSong(MkSong(TrackOf(Str(<<1>>), Str(<<1>>)), 1))

\* Elements with one field missing or of the wrong type.
Malformed ==
  { [GoodElem EXCEPT !.uid = Absent],
    [GoodElem EXCEPT !.uid = Num(1)],
    [GoodElem EXCEPT !.uri = Absent],
    [GoodElem EXCEPT !.uri = Num(1)],
    [GoodElem EXCEPT !.name = Absent],
    [GoodElem EXCEPT !.name = Null],
    [GoodElem EXCEPT !.duration = Absent],
    [GoodElem EXCEPT !.duration = [milliseconds |-> Absent]],
    [GoodElem EXCEPT !.duration = [milliseconds |-> Str(<<51>>)]],
    [GoodElem EXCEPT !.album = Absent],
    [GoodElem EXCEPT !.album = [name |-> Absent, uri |-> Str(<<4>>)]],
    [GoodElem EXCEPT !.album = [name |-> Str(<<3>>), uri |-> Num(4)]],
    [GoodElem EXCEPT !.artists = Absent],
    [GoodElem EXCEPT !.artists = Str(<<5>>)],
    [GoodElem EXCEPT !.artists = Arr(<<[name |-> Absent, uri |-> Str(<<6>>)]>>)],
    [GoodElem EXCEPT !.artists = Arr(<<ArtistQ, [name |-> Str(<<5>>), uri |-> Num(6)]>>)],
    [GoodElem EXCEPT !.listenDate = Absent],
    [GoodElem EXCEPT !.listenDate = Str(<<49>>)],
    [GoodElem EXCEPT !.images = Absent],
    [GoodElem EXCEPT !.images = MetaObj],
    [GoodElem EXCEPT !.images = Arr(<<[label |-> Absent, url |-> Str(<<8>>)]>>)],
    [GoodElem EXCEPT !.images = Arr(<<ImageI, [label |-> Str(<<7>>), url |-> Num(8)]>>)],
    [GoodElem EXCEPT !.metadata = Absent],
    [GoodElem EXCEPT !.metadata = Null],
    [GoodElem EXCEPT !.metadata = Str(<<9>>)] }

\* Elements of the right types with unusual values: a negative duration,
\* an array as metadata, no artists and no images.
Unusual ==
  { [GoodElem EXCEPT !.duration = [milliseconds |-> Num(0 - 1)]],
    [GoodElem EXCEPT !.metadata = Arr(<<>>)],
    [GoodElem EXCEPT !.artists = Arr(<<>>), !.images = Arr(<<>>)] }

\* The documents the validation is run on: one element, or one element
\* in front of or behind an exported song.
ValidateDocs ==
  LET elems == Malformed \cup Unusual \cup ImportSongs
  IN {<<e>> : e \in elems}
       \cup {<<v, e>> : v \in ImportSongs, e \in elems}
       \cup {<<e, v>> : v \in ImportSongs, e \in elems}

\* Imports of these documents, one at a time.
NextValidate ==
  \/ \E doc \in ValidateDocs : txns = <<>> /\ ImportHistory(doc)
  \/ \E i \in 1..Len(txns) : ImportAdd(i)
  \/ \E i \in 1..Len(txns) : TxnComplete(i)

SpecValidate == Init /\ [][NextValidate]_vars

\* ------------------------------------------------------------- claims
\* The transaction at the head of the queue is a readwrite one of this
\* kind, and this step ends it (commit or abort).
HeadEnds(kind) ==
  /\ txns # <<>>
  /\ txns[1].kind = kind
  /\ Len(txns') < Len(txns)

\* The head transaction of this kind takes a step of its own.
HeadSteps(kind, stage) ==
  /\ txns # <<>>
  /\ txns[1].kind = kind
  /\ txns[1].stage = stage
  /\ \/ Len(txns') < Len(txns)
     \/ txns'[1] # txns[1]

\* C1: in every reachable state no two stored records share a uri and no
\* two stored records share a uid.
C1_Uniqueness ==
  \A a, b \in store : a # b => (a.uid # b.uid /\ a.uri # b.uri)

\* C1 witness: two records are stored and a conflicting insert has just
\* been rejected.
C1_Witness ==
  /\ Cardinality(store) = 2
  /\ last.kind \in {"save", "import"}
  /\ last.stage = "aborted"

\* The rows of uri u are exactly the first upsert's record with the
\* listenDate of the last upsert.
ChainHolds(u) ==
  {r \in store : r.uri = u}
    = {[chain[u][1].first EXCEPT !.listenDate = chain[u][1].ts]}

C3_UpdateFrame ==
  [][ /\ HeadSteps("save", "put") =>
           /\ Len(txns') = Len(txns)
           /\ txns'[1].stage = "done"
           /\ txns'[1].outcome = "resolved"
      /\ (HeadEnds("save") /\ txns[1].found # Undefined) =>
           /\ txns[1].found \in store
           /\ store' = (store \ {txns[1].found})
                         \cup {[txns[1].found EXCEPT
                                  !.listenDate = txns[1].song.listenDate]}
           /\ Cardinality(store') = Cardinality(store)
           /\ last'.outcome = "resolved"
    ]_vars

\* C3 witness: an update has run whose incoming listenDate is smaller than
\* the stored one and whose incoming uid differs from the stored one.
C3_Witness ==
  \E i \in 1..Len(txns) :
    /\ txns[i].kind = "save" /\ txns[i].stage = "done"
    /\ txns[i].found # Undefined
    /\ txns[i].song.listenDate.v < txns[i].found.listenDate.v
    /\ txns[i].song.uid # txns[i].found.uid
    /\ Cardinality(store) = 2

\* C4 as claimed: an upsert whose uri matches no stored record inserts the
\* incoming record and reports success: the store becomes the previous store
\* plus that record.
C4_Original ==
  [][ /\ HeadSteps("save", "add") =>
           /\ Len(txns') = Len(txns)
           /\ txns'[1].outcome = "resolved"
      /\ (HeadEnds("save") /\ txns[1].found = Undefined /\ txns[1].stage = "done") =>
           store' = store \cup {txns[1].song}
    ]_vars

\* C4 as amended: an upsert whose uri and uid match no stored record inserts
\* the incoming record and reports success: the store becomes the previous
\* store plus that record.
C4_Insert ==
  [][ /\ (HeadSteps("save", "add") /\ ~KeyExists(store, txns[1].song.uid)) =>
           /\ Len(txns') = Len(txns)
           /\ txns'[1].stage = "done"
           /\ txns'[1].outcome = "resolved"
      /\ (HeadEnds("save") /\ txns[1].found = Undefined /\ txns[1].stage = "done") =>
           /\ txns[1].song \notin store
           /\ store' = store \cup {txns[1].song}
           /\ last'.outcome = "resolved"
    ]_vars

\* C4 witness: an insert into a non-empty store has run and resolved.
C4_Witness ==
  \E i \in 1..Len(txns) :
    /\ txns[i].kind = "save" /\ txns[i].stage = "done"
    /\ txns[i].found = Undefined /\ txns[i].outcome = "resolved"
    /\ store # {}
    /\ View(txns[i]) = store \cup {txns[i].song}

C6_RejectedAsWhole ==
  [][ (HeadEnds("import") /\ LoopThrows(txns[1].doc)) => store' = store ]_vars

\* The element at position k of doc clashes with no stored record and with
\* no other element of doc.
Unconflicting(doc, k) ==
  /\ \A r \in store : r.uid # doc[k].uid /\ r.uri # doc[k].uri
  /\ \A j \in 1..Len(doc) :
       j # k => (doc[j].uid # doc[k].uid /\ doc[j].uri # doc[k].uri)

\* C7: when a document of valid records holds a record whose uri is already
\* stored, that record is skipped and every other, non-conflicting record of
\* the document is inserted.
C7_ConflictsSkipped ==
  [][ ( /\ HeadEnds("import")
        /\ ~LoopThrows(txns[1].doc)
        /\ \E k \in 1..Len(txns[1].doc) :
             \E r \in store : r.uri = txns[1].doc[k].uri )
      => \A k \in 1..Len(txns[1].doc) :
           Unconflicting(txns[1].doc, k) => txns[1].doc[k] \in store'
    ]_vars

\* C8: import never overwrites or removes a stored record: every record
\* stored before an import is stored with identical fields after it.
C8_ImportKeeps ==
  [][ HeadEnds("import") => store \subseteq store' ]_vars

\* C8 witness: an import has met a stored record with the uid or uri of one
\* of its elements (its insert failed) and the store is not empty.
C8_Witness ==
  /\ last.kind = "import" /\ last.stage = "aborted"
  /\ store # {}

\* C9: exporting a store of N >= 1 valid records and importing the exported
\* document into an empty store yields exactly the N original records, and
\* the import reports success.
C9_RoundTrip ==
  [][ ( /\ HeadEnds("import")
        /\ exported # <<>> /\ txns[1].doc = exported[1]
        /\ store = {}
        /\ origin # {}
        /\ \A r \in origin : isValidSong(r) )
      => /\ store' = origin
         /\ last'.stage = "complete"
         /\ "History imported" \in last'.notes
    ]_vars

\* C9 witness: an import of the kept export has completed and the store
\* holds the MaxRows records the export was made from.
C9_Witness ==
  /\ last.kind = "import" /\ last.stage = "complete"
  /\ "History imported" \in last.notes
  /\ exported # <<>>
  /\ Cardinality(origin) = MaxRows
  /\ store = origin

\* C10: the exported document holds every stored record exactly once and
\* nothing else, in non-decreasing listenDate order, whatever the sort
\* configuration of the page; the export leaves the store unchanged.
C10_ExportDocument ==
  /\ store = serial
  /\ \A i \in 1..Len(txns) :
       (txns[i].kind = "export" /\ txns[i].stage = "done" /\ store # {}) =>
         LET doc == txns[i].doc
         IN /\ Len(doc) = Cardinality(store)
            /\ {doc[k] : k \in 1..Len(doc)} = {JsonOfSong(r) : r \in store}
            /\ \A k \in 1..(Len(doc) - 1) :
                 doc[k].listenDate.v <= doc[k + 1].listenDate.v

\* C10 witness: an export of MaxRows records with different listenDates has
\* run while the page sorts by name, ascending, and its order is not the
\* key order getAll returned.
C10_Witness ==
  \E i \in 1..Len(txns) :
    /\ txns[i].kind = "export" /\ txns[i].stage = "done"
    /\ Len(txns[i].doc) = MaxRows
    /\ sortConfig = [key |-> "name", ascending |-> TRUE]
    /\ txns[i].doc[1].listenDate.v < txns[i].doc[MaxRows].listenDate.v
    /\ txns[i].doc[1].uid # StoreGetAll(store)[1].uid

\* C11: an export of an empty store makes no file, reports "No history to
\* export" and neither the failure nor the success notification, and leaves
\* the store unchanged; an export of a non-empty store never reports "No
\* history to export".
C11_EmptyHistory ==
  /\ store = serial
  /\ \A i \in 1..Len(txns) :
       (txns[i].kind = "export" /\ txns[i].stage = "done") =>
         IF store = {}
           THEN /\ txns[i].doc = <<>>
                /\ txns[i].notes = {"Exporting history...", "No history to export"}
                /\ txns[i].outcome = "resolved"
           ELSE /\ "No history to export" \notin txns[i].notes
                /\ "History exported" \in txns[i].notes
  /\ last.kind = "export" =>
       /\ "No history to export" \in last.notes <=> store = {}
       /\ "History exported" \in last.notes <=> store # {}
       /\ "Failed to export history" \notin last.notes

\* C11 witness: an export of the empty store has completed with the
\* empty-history notification.
C11_Witness ==
  /\ store = {}
  /\ txns = <<>>
  /\ last.kind = "export" /\ last.stage = "complete"
  /\ "No history to export" \in last.notes

\* C12: deleting an id that is not in the store (such as a second delete of
\* the same id) reports success, not failure, and leaves the store unchanged.
C12_DeleteIdempotent ==
  [][ /\ (HeadSteps("delete", "request") /\ ~KeyExists(store, txns[1].key)) =>
           /\ Len(txns') = Len(txns)
           /\ txns'[1].stage = "done"
           /\ txns'[1].outcome = "resolved"
           /\ txns'[1].work = <<store>>
           /\ "Song deleted" \in txns'[1].notes
           /\ "Failed to delete song" \notin txns'[1].notes
      /\ (HeadEnds("delete") /\ ~KeyExists(store, txns[1].key)) =>
           /\ store' = store
           /\ last'.outcome = "resolved"
           /\ last'.notes = {"Deleting song...", "Song deleted"}
    ]_vars

\* C12 witness: after a delete has completed, a delete of an id that no
\* record of the non-empty store has has run and resolved.
C12_Witness ==
  /\ last.kind = "delete" /\ last.stage = "complete"
  /\ store # {}
  /\ txns # <<>>
  /\ txns[1].kind = "delete" /\ txns[1].stage = "done"
  /\ ~KeyExists(store, txns[1].key)
  /\ txns[1].outcome = "resolved"

\* C13: a delete removes exactly the row whose key is the given id:
\* afterwards no row has that id and every other row is stored unchanged,
\* whatever its uri.
C13_DeleteExact ==
  [][ HeadEnds("delete") =>
        /\ \A r \in store' : r.uid # txns[1].key
        /\ \A r \in store : r.uid # txns[1].key => r \in store'
        /\ store' \subseteq store
    ]_vars

\* C13 witness: a delete of a stored id has run on a full store, and a row
\* with another id whose uri reads like the deleted id is kept.
C13_Witness ==
  \E i \in 1..Len(txns) :
    /\ txns[i].kind = "delete" /\ txns[i].stage = "done"
    /\ KeyExists(store, txns[i].key)
    /\ Cardinality(store) = MaxRows
    /\ Cardinality(View(txns[i])) = MaxRows - 1
    /\ \E r \in View(txns[i]) : r.uri = txns[i].key /\ r.uid # txns[i].key

\* C14: once a clear has completed, and until a later operation completes,
\* the store is empty and every getAll that has run returned no record.
C14_ClearEmpties ==
  (last.kind = "clear" /\ last.stage = "complete") =>
    /\ store = {}
    /\ StoreGetAll(store) = <<>>
    /\ \A i \in 1..Len(txns) :
         (txns[i].kind = "export" /\ txns[i].stage = "done") =>
           /\ txns[i].doc = <<>>
           /\ "No history to export" \in txns[i].notes

\* C14 witness: a clear has completed and a getAll has run after it and
\* returned no record, while an upsert issued after the getAll waits.
C14_Witness ==
  /\ last.kind = "clear" /\ last.stage = "complete"
  /\ Len(txns) = MaxTxns
  /\ txns[1].kind = "export" /\ txns[1].stage = "done"
  /\ "No history to export" \in txns[1].notes
  /\ txns[2].kind = "save"

\* C15: a getAll in flight together with a clear returns every record the
\* store held before the clear, or none: while the clear is pending it has
\* returned the whole store, and after the clear it returns no record.
C15_ClearAtomic ==
  \A i \in 1..Len(txns) :
    (txns[i].kind = "export" /\ txns[i].stage = "done") =>
      LET doc == txns[i].doc
      IN /\ (\E j \in 1..Len(txns) : txns[j].kind = "clear") =>
              /\ Len(doc) = Cardinality(store)
              /\ {doc[k] : k \in 1..Len(doc)} = {JsonOfSong(r) : r \in store}
         /\ (last.kind = "clear" /\ last.stage = "complete") => doc = <<>>

\* C15 witness: a getAll has returned all MaxRows records while a clear
\* issued after it waits.
C15_Witness ==
  /\ Len(txns) = 2
  /\ txns[1].kind = "export" /\ txns[1].stage = "done"
  /\ txns[2].kind = "clear" /\ txns[2].stage = "request"
  /\ Cardinality(store) = MaxRows
  /\ Len(txns[1].doc) = MaxRows

\* C16: a clear and an upsert in flight together take effect in the order
\* they were issued: a clear issued first ends first and leaves the store
\* empty for the upsert, whose row is the only one once both have completed;
\* an upsert issued first ends first, and the store is empty once the clear
\* has completed.
C16_IssueOrder ==
  [][ /\ ( /\ Len(txns) = 2
           /\ txns[1].kind = "clear" /\ txns[2].kind = "save"
           /\ HeadEnds("clear") ) =>
             /\ txns[2].stage = "get"
             /\ txns' = <<txns[2]>>
             /\ store' = {}
      /\ (HeadEnds("save") /\ last.kind = "clear" /\ last.stage = "complete") =>
             /\ store' = {txns[1].song}
             /\ last'.stage = "complete"
             /\ last'.outcome = "resolved"
      /\ ( /\ Len(txns) = 2
           /\ txns[1].kind = "save" /\ txns[2].kind = "clear"
           /\ HeadEnds("save") ) =>
             /\ txns[2].stage = "request"
             /\ txns' = <<txns[2]>>
      /\ (HeadEnds("clear") /\ last.kind = "save") => store' = {}
    ]_vars

\* C16 witness: a clear has run on a non-empty store while an upsert issued
\* after it, for a uri the store still holds, waits.
C16_Witness ==
  /\ Len(txns) = 2
  /\ txns[1].kind = "clear" /\ txns[1].stage = "done"
  /\ txns[2].kind = "save" /\ txns[2].stage = "get"
  /\ \E r \in store : r.uri = txns[2].song.uri

\* The uid of song is the key of a record stored under another uri.
KeyClash(s, song) == \E r \in s : r.uid = song.uid /\ r.uri # song.uri

\* Two upserts in flight with different uris and different uids, the first
\* of them ending in this step.
FirstOfTwoEnds ==
  /\ Len(txns) = 2
  /\ txns[1].kind = "save" /\ txns[2].kind = "save"
  /\ txns[1].song.uri # txns[2].song.uri
  /\ txns[1].song.uid # txns[2].song.uid
  /\ HeadEnds("save")

\* What every interleaving of two upserts with different uris and uids
\* ends in: each takes its own sequential effect on the store it finds, the
\* two effects commute, and the second one waits for the first.
TwoUpsertsCommute ==
  /\ HeadEnds("save") => store' = UpsertEffect(store, txns[1].song)
  /\ FirstOfTwoEnds =>
       LET a == txns[1].song
           b == txns[2].song
       IN /\ txns' = <<txns[2]>>
          /\ UpsertEffect(UpsertEffect(store, a), b)
               = UpsertEffect(UpsertEffect(store, b), a)
          /\ serial = UpsertEffect(UpsertEffect(store, a), b)
          /\ KeyClash(store', b) <=> KeyClash(store, b)

KeyOf(song, key) ==
  IF key = "date" THEN song.listenDate.v ELSE Milliseconds(song).v

\* How often x occurs in list.
Count(x, list) == Cardinality({i \in 1..Len(list) : list[i] = x})

\* The records of list whose key is k, in the order of list.
WithKey(list, key, k) ==
  LET Has(song) == KeyOf(song, key) = k IN SelectSeq(list, Has)

\* out holds the records of in with the same multiplicities, in
\* non-decreasing key order, records with equal keys in the order of in.
SortedStable(in, out, key) ==
  /\ Len(out) = Len(in)
  /\ \A x \in ViewSongs : Count(x, out) = Count(x, in)
  /\ \A i \in 1..(Len(out) - 1) : KeyOf(out[i], key) <= KeyOf(out[i + 1], key)
  /\ \A i \in 1..Len(in) :
       WithKey(out, key, KeyOf(in[i], key)) = WithKey(in, key, KeyOf(in[i], key))

\* C18: sorting ascending by date or by duration gives a permutation of the
\* input (same records, same multiplicities) in non-decreasing listenDate
\* respectively duration, with equal keys in input order, and leaves the
\* input array as it was.
C18_SortAscending ==
  [][ (ShowHistory /\ sortConfig.ascending
         /\ sortConfig.key \in {"date", "duration"}) =>
        /\ SortedStable(songsFromDB, songs', sortConfig.key)
        /\ songsFromDB' = songsFromDB
    ]_vars

\* C18 witness: MaxList records that were not in duration order, two
\* different ones of them with equal durations, are shown sorted by duration.
C18_Witness ==
  /\ sortConfig = [key |-> "duration", ascending |-> TRUE]
  /\ Len(songsFromDB) = MaxList
  /\ songs # songsFromDB
  /\ SortedStable(songsFromDB, songs, "duration")
  /\ \E i \in 1..(Len(songs) - 1) :
       /\ songs[i] # songs[i + 1]
       /\ KeyOf(songs[i], "duration") = KeyOf(songs[i + 1], "duration")

\* The records of list that compare equal to x under key, in list order.
TiedWith(list, key, x) ==
  LET Ties(song) == Compare(key, x, song) = 0 IN SelectSeq(list, Ties)

\* out is list read backwards.
IsReversal(list, out) ==
  /\ Len(out) = Len(list)
  /\ \A i \in 1..Len(list) : out[i] = list[Len(list) + 1 - i]

\* C19: for every input and every key, the descending sort is the
\* element-wise reversal of the ascending sort, so records with equal keys
\* come in the reverse of their input order.
C19_DescendingReverses ==
  [][ (ShowHistory /\ ~sortConfig.ascending) =>
        /\ IsReversal(sortSongs(songsFromDB,
                                [key |-> sortConfig.key, ascending |-> TRUE]),
                      songs')
        /\ \A i \in 1..Len(songsFromDB) :
             IsReversal(TiedWith(songsFromDB, sortConfig.key, songsFromDB[i]),
                        TiedWith(songs', sortConfig.key, songsFromDB[i]))
    ]_vars

\* C19 witness: MaxList records are shown sorted by album, descending, and
\* two different records with equal album keys come in the reverse of their
\* input order.
C19_Witness ==
  /\ sortConfig = [key |-> "album", ascending |-> FALSE]
  /\ Len(songsFromDB) = MaxList
  /\ Len(songs) = MaxList
  /\ \E i, j \in 1..MaxList :
       /\ i < j
       /\ songsFromDB[i] # songsFromDB[j]
       /\ Compare("album", songsFromDB[i], songsFromDB[j]) = 0
       /\ \E k, l \in 1..MaxList :
            k < l /\ songs[k] = songsFromDB[j] /\ songs[l] = songsFromDB[i]
  /\ IsReversal(sortSongs(songsFromDB, [key |-> "album", ascending |-> TRUE]),
                songs)

\* Two character codes are the same letter, case ignored.
SameLetter(x, y) ==
  \/ x = y
  \/ x \in 65..90 /\ y = x + 32
  \/ y \in 65..90 /\ x = y + 32

\* needle occurs in hay, case ignored.
FoldContains(hay, needle) ==
  \E off \in 0..(Len(hay) - Len(needle)) :
    \A k \in 1..Len(needle) : SameLetter(hay[off + k], needle[k])

\* The typed value occurs, case ignored, in the title, in the album name or
\* in the name of an artist of the record.
FoldMatch(song, value) ==
  \/ FoldContains(song.name.v, value)
  \/ AlbumName(song) # Undefined /\ FoldContains(AlbumName(song).v, value)
  \/ \E i \in 1..Len(song.artists.v) :
       FoldContains(song.artists.v[i].name.v, value)

\* C20: the filter returns, in input order, exactly the records for which
\* the typed value occurs, case ignored, in the title, the album name or the
\* name of an artist; every record for the empty value; and no record that
\* is not in the input.
C20_Filter ==
  [][ DebounceFires =>
        LET in == debounce[1].songs
            value == debounce[1].value
            Wanted(song) == FoldMatch(song, value)
        IN /\ filteredSongs' = SelectSeq(in, Wanted)
           /\ value = <<>> => filteredSongs' = in
           /\ \A i \in 1..Len(filteredSongs') :
                \E j \in 1..Len(in) : in[j] = filteredSongs'[i]
    ]_vars

\* C20 witness: "OP" was typed over a list of the MaxList different
\* records, and the filter kept the record with the title "OP" and the
\* record with the album "Op", in list order, and dropped the third.
C20_Witness ==
  /\ debounce = <<>>
  /\ searchQuery = <<111, 112>>
  /\ Len(songs) = MaxList
  /\ \A i, j \in 1..MaxList : i # j => songs[i] # songs[j]
  /\ Len(filteredSongs) = 2
  /\ filteredSongs[1].name = Str(<<79, 80>>)
  /\ filteredSongs[2].album.name = Str(<<79, 112>>)
  /\ \E i, j \in 1..MaxList :
       i < j /\ songs[i] = filteredSongs[1] /\ songs[j] = filteredSongs[2]

\* obj has the property f, and it is a string (a number).
HasString(obj, f) == f \in DOMAIN obj /\ obj[f].t = "string"
HasNumber(obj, f) == f \in DOMAIN obj /\ obj[f].t = "number"

\* Every required field of e is present and of its type; an array counts
\* as a non-null object.
WellFormed(e) ==
  /\ e.uid.t = "string" /\ e.uri.t = "string" /\ e.name.t = "string"
  /\ HasNumber(e.duration, "milliseconds")
  /\ e.listenDate.t = "number"
  /\ HasString(e.album, "name") /\ HasString(e.album, "uri")
  /\ e.artists.t = "array"
  /\ \A i \in 1..Len(e.artists.v) :
       HasString(e.artists.v[i], "name") /\ HasString(e.artists.v[i], "uri")
  /\ e.images.t = "array"
  /\ \A i \in 1..Len(e.images.v) :
       HasString(e.images.v[i], "url") /\ HasString(e.images.v[i], "label")
  /\ e.metadata.t \in {"object", "array"}

\* C21: the validation of the import accepts an element exactly when every
\* required field is present and of its type, and the import never writes
\* an element that fails this to the store.
C21_Validation ==
  /\ \A r \in store : WellFormed(r)
  /\ \A i \in 1..Len(txns) :
       txns[i].kind = "import" =>
         /\ \A k \in 1..Len(txns[i].doc) :
              isValidSong(txns[i].doc[k]) <=> WellFormed(txns[i].doc[k])
         /\ txns[i].handlers <=>
              \A k \in 1..Len(txns[i].doc) : WellFormed(txns[i].doc[k])
         /\ \A k \in 1..Len(txns[i].adds) : WellFormed(txns[i].adds[k])
         /\ \A r \in View(txns[i]) : WellFormed(r)

\* C21 witness: an import of an exported song followed by a malformed
\* element has finished: the song is stored, the malformed element is not,
\* and the failure was shown.
C21_Witness ==
  /\ txns = <<>>
  /\ last.kind = "import" /\ last.stage = "complete"
  /\ "Failed to import history" \in last.notes
  /\ Cardinality(store) = 1
  /\ \A r \in store : r \in ImportSongs

\* C22: every stored record has a duration that is a number and is not
\* negative.
C22_NonNegativeDuration ==
  \A r \in store :
    /\ HasNumber(r.duration, "milliseconds")
    /\ r.duration.milliseconds.v >= 0

\* The operation at the head ends without its effect: its transaction
\* aborted, or it is an import and an element of its document is not in
\* the store.
HeadFails ==
  /\ txns # <<>>
  /\ Len(txns') < Len(txns)
  /\ \/ last'.stage = "aborted"
     \/ /\ txns[1].kind = "import"
        /\ \E k \in 1..Len(txns[1].doc) : txns[1].doc[k] \notin store'

\* C23: an operation that ends without its effect does not resolve its
\* caller's promise as a success does: the promise is rejected.
C23_ExplicitFailure ==
  [][ HeadFails => last'.outcome = "rejected" ]_vars

\* What the caller of an operation that ended gets: the state of its
\* promise, the rejection value, and the notifications shown.
Visible(l) == <<l.outcome, l.reason, l.notes>>

\* C24: an operation that fails on a uniqueness constraint ends, for its
\* caller, differently from the same operation failing on another storage
\* error.
C24_ConflictDistinguishable ==
  [][ ( /\ last.error = "UnknownError"
        /\ last'.error = "ConstraintError"
        /\ last'.kind = last.kind )
      => Visible(last') # Visible(last) ]_vars

\* C25: once the extension's start is over, a track played while the
\* storage engine is available is recorded, also when the open at the
\* start had failed: the event starts an upsert of the played track.
C25_RecordedAfterRetry ==
  [][ \A item \in Tracks, now \in Times :
        (available /\ listener # "starting" /\ PlayedEvent(item, now))
          => /\ Len(txns') = Len(txns) + 1
             /\ txns'[Len(txns')].kind = "save"
             /\ txns'[Len(txns')].song.uri = item.uri ]_vars

\* The head transaction, a write, commits.
HeadCommits ==
  /\ txns # <<>>
  /\ txns[1].mode = "readwrite" /\ txns[1].stage = "done"
  /\ txns' = Tail(txns)
  /\ store' = View(txns[1])

\* C26: a restart and every openDB (with its upgrade step) leave the stored
\* records as they are; the records change only when a write transaction
\* commits.
C26_Persistent ==
  [][ /\ (Restart \/ ExtensionStart \/ FetchOpen) => store' = store
      /\ store' # store => HeadCommits ]_vars

\* C26 witness: after a restart the extension has opened the database
\* again and the page has fetched the records, which are still there.
C26_Witness ==
  /\ last.kind = "restart"
  /\ listener = "registered"
  /\ store # {}
  /\ songsFromDB = StoreGetAll(store)

\* The refresh of a track's event ends, the upsert of that event was the
\* last operation to end before it, and nothing else is running or waiting.
RefreshEndsAfterUpsert ==
  /\ HeadEnds("fetch")
  /\ Len(txns) = 1
  /\ fetches = <<>>
  /\ txns[1].song # NoSong
  /\ last.kind = "save"

\* The displayed list holds the song with its listenDate.
Displayed(list, song) ==
  \E k \in 1..Len(list) :
    /\ list[k].uri = song.uri
    /\ list[k].listenDate = song.listenDate

\* C27 as stated: when the upsert and the refresh of a track's event have
\* both ended with nothing in between, the displayed list holds the played
\* track with the event's listenDate.
C27_Original ==
  [][ RefreshEndsAfterUpsert => Displayed(filteredSongs', txns[1].song) ]_vars

\* C27: when the upsert of a track's event has succeeded and the refresh of
\* the same event has ended with nothing in between, the displayed list
\* holds the played track with the event's listenDate.
C27_RefreshSeesUpsert ==
  [][ (RefreshEndsAfterUpsert /\ last.outcome = "resolved")
        => Displayed(filteredSongs', txns[1].song) ]_vars

\* C27 witness: the refresh of a track's event has read the store after
\* the event's upsert succeeded and shows the track; a second record is
\* stored as well.
C27_Witness ==
  /\ Len(txns) = 1 /\ fetches = <<>>
  /\ txns[1].kind = "fetch" /\ txns[1].stage = "done"
  /\ txns[1].song # NoSong
  /\ last.kind = "save" /\ last.outcome = "resolved"
  /\ Displayed(filteredSongs, txns[1].song)
  /\ Len(filteredSongs) = 2

\* C29: a songchange event whose item is a track starts exactly one upsert,
\* of that track with the event's time as listenDate, and writes nothing
\* itself; an event with no item or an item of another type starts no
\* transaction and leaves the store as it is.
C29_OneUpsertPerTrack ==
  [][ \A item \in PlayerItems, now \in Times :
        PlayedEvent(item, now) =>
          IF item.type = "track"
            THEN /\ Len(txns') = Len(txns) + 1
                 /\ SubSeq(txns', 1, Len(txns)) = txns
                 /\ LET t == txns'[Len(txns')]
                    IN /\ t.kind = "save" /\ t.mode = "readwrite"
                       /\ t.song.uid = item.uid
                       /\ t.song.uri = item.uri
                       /\ t.song.name = item.name
                       /\ t.song.listenDate = Num(now)
                 /\ store' = store
            ELSE txns' = txns /\ store' = store ]_vars

\* C29 witness: an event with an episode has happened while the upsert of
\* a track's event is live: one save transaction, two refreshes waiting.
C29_Witness ==
  /\ Len(txns) = 1 /\ txns[1].kind = "save"
  /\ txns[1].song.listenDate = Num(MaxTime)
  /\ Len(fetches) = 2
  /\ fetches[1].song = txns[1].song
  /\ fetches[2].song = NoSong

\* C30: the sort configuration starts as (date, descending); selecting
\* the key that is selected keeps it and toggles the direction, selecting
\* another key sets that key with direction ascending; nothing else changes
\* the configuration.
C30_SortConfig ==
  /\ sortConfig = [key |-> "date", ascending |-> FALSE]
  /\ [][ /\ \A key \in SortKeys :
              sortByColumn(key) =>
                /\ sortConfig'.key = key
                /\ key = sortConfig.key
                     => sortConfig'.ascending = ~sortConfig.ascending
                /\ key # sortConfig.key => sortConfig'.ascending = TRUE
         /\ sortConfig' # sortConfig =>
              \E key \in SortKeys : sortByColumn(key) ]_vars

\* C30 witness: "name" was selected while (date, descending) was the
\* configuration, which made it (name, ascending), and selected again.
C30_Witness ==
  /\ sortConfig = [key |-> "name", ascending |-> FALSE]
  /\ songs # <<>>

\* How far a transaction is: issued, at its write, done.
Rank(stage) ==
  CASE stage \in {"get", "request"} -> 0
    [] stage \in {"put", "add"} -> 1
    [] OTHER -> 2

\* A step of the oldest live transaction ends it or takes it further.
HeadAdvances ==
  \/ Len(txns') < Len(txns)
  \/ Rank(txns'[1].stage) > Rank(txns[1].stage)

\* C28: whatever the caller does, either no operation is live again and
\* again, or the oldest live operation is served again and again, each
\* time getting nearer to its end: so every started upsert, delete, clear
\* and getAll ends.  The stored records change only by the commit of a
\* whole write transaction; an operation that fails leaves them as they
\* were.
C28_Completes ==
  /\ ([]<>(txns = <<>>)) \/ ([]<><<EngineStep(1)>>_vars)
  /\ [][EngineStep(1) => HeadAdvances]_vars
  /\ [][store' # store => HeadCommits]_vars

\* C28 witness: nothing is live; the last operation to end was an upsert
\* that failed, and the record stored before it is still there.
C28_Witness ==
  /\ txns = <<>>
  /\ last.kind = "save" /\ last.stage = "aborted"
  /\ store # {}

\* C31: an import that ends having shown "History imported" has every
\* element of its document in the store; one that ends having shown
\* "Failed to import history" has left the store as it was; no import
\* shows both.
C31_ImportReports ==
  [][ HeadEnds("import") =>
        /\ "History imported" \in last'.notes =>
             \A k \in 1..Len(txns[1].doc) : txns[1].doc[k] \in store'
        /\ "Failed to import history" \in last'.notes => store' = store
        /\ ~ ( /\ "History imported" \in last'.notes
               /\ "Failed to import history" \in last'.notes ) ]_vars

\* No fetchHistory is waiting for openDB or for getAll.
NoRefreshInFlight ==
  /\ fetches = <<>>
  /\ \A i \in 1..Len(txns) : txns[i].kind # "fetch"

\* C32: when no refresh is in flight and no debounce timer is pending, the
\* displayed list is the last fetched records, sorted by the current sort
\* configuration and filtered by the current search query.
C32_DisplayedIsFiltered ==
  (NoRefreshInFlight /\ debounce = <<>>)
    => filteredSongs = Filter(sortSongs(songsFromDB, sortConfig), searchQuery)

\* C33: when no refresh and no write is in flight, the sorted list of the
\* page is the content of the store sorted by the current sort
\* configuration.
C33_LatestWins ==
  (fetches = <<>> /\ txns = <<>>)
    => songs = sortSongs(StoreGetAll(store), sortConfig)

\* C34: an upsert that ends rejected (its lookup, its update or its insert
\* failed) leaves the stored records as they were; and the insert of a
\* song whose uid is the key of a stored record is such a failure.
C34_FailedUpsertNoEffect ==
  [][ /\ (HeadEnds("save") /\ last'.outcome = "rejected") => store' = store
      /\ (HeadSteps("save", "add") /\ KeyExists(store, txns[1].song.uid))
           => /\ Len(txns') < Len(txns)
              /\ last'.outcome = "rejected"
              /\ store' = store ]_vars

\* C34 witness: an upsert has just failed on the uniqueness constraint,
\* another one is waiting, and the stored record is still there.
C34_Witness ==
  /\ last.kind = "save" /\ last.outcome = "rejected"
  /\ last.error = "ConstraintError"
  /\ Len(txns) = 1 /\ txns[1].kind = "save" /\ txns[1].stage = "get"
  /\ Cardinality(store) = 1

\* C35: when the last operation to end was a rejected upsert, the listener
\* is still registered and a songchange event with a track starts the
\* upsert of that track, as after a success.
C35_RecordingGoesOn ==
  [][ \A item \in Tracks, now \in Times :
        ( /\ last.kind = "save" /\ last.outcome = "rejected"
          /\ PlayedEvent(item, now) )
          => /\ listener' = "registered"
             /\ Len(txns') = Len(txns) + 1
             /\ txns'[Len(txns')].kind = "save"
             /\ txns'[Len(txns')].stage = "get"
             /\ txns'[Len(txns')].song = MkSong(item, now) ]_vars

\* C35 witness: the upsert of an event was rejected, the refresh of that
\* event has opened its transaction, and the upsert of a later event is
\* live behind it.
C35_Witness ==
  /\ last.kind = "save" /\ last.outcome = "rejected"
  /\ Len(txns) = 2
  /\ txns[1].kind = "fetch" /\ txns[1].song # NoSong
  /\ txns[2].kind = "save"

\* A refresh ends; the last operation to end before it was an import that
\* committed and reported success, and nothing else is running or waiting.
RefreshEndsAfterImport ==
  /\ HeadEnds("fetch")
  /\ Len(txns) = 1
  /\ fetches = <<>>
  /\ last.kind = "import" /\ last.stage = "complete"
  /\ "History imported" \in last.notes

\* Every element of the document is in the list.
ListsAll(list, doc) ==
  \A k \in 1..Len(doc) : \E j \in 1..Len(list) : list[j] = doc[k]

\* C36: when an import from the page has committed and the refresh its
\* handler started ends with nothing in between, the displayed list holds
\* every record of the imported document.
C36_RefreshSeesImport ==
  [][ RefreshEndsAfterImport => ListsAll(filteredSongs', exported[1]) ]_vars

\* C36 witness: the refresh after a committed import of two records has
\* read the store and shows both.
C36_Witness ==
  /\ Len(txns) = 1 /\ fetches = <<>>
  /\ txns[1].kind = "fetch" /\ txns[1].stage = "done"
  /\ last.kind = "import" /\ last.stage = "complete"
  /\ "History imported" \in last.notes
  /\ Len(exported[1]) = 2
  /\ ListsAll(filteredSongs, exported[1])

====
